---------------------------- MODULE Spec2Model ----------------------------
(***************************************************************************)
(* Model of hashedindex.HashedIndex (an in-memory inverted index) and of   *)
(* the module-level merge function, src/hashedindex/__init__.py.           *)
(*                                                                         *)
(* Three program variables hold HashedIndex instances: "A" and "B" are     *)
(* built by the constructor (optionally seeded), "R" receives the result   *)
(* of merge.  A Python dict / Counter is modelled as a sequence of         *)
(* <<key, value>> pairs with distinct keys, in insertion order.  The       *)
(* per-term tables are objects with identity: _terms maps a term to a      *)
(* reference into heap, so that two indexes can hold the same table.       *)
(***************************************************************************)
EXTENDS Integers, Sequences, FiniteSets, TLC

\* ---------------------------------------------------------------- bounds
MaxOps == 5       \* calls made on the index in one behaviour of Spec
MaxMergeOps == 3  \* calls made in one behaviour of SpecMerge
MaxList == 2      \* longest index_list handed to merge
MaxPairOps == 3   \* calls made in one behaviour of SpecMergePair
MaxHoldOps == 3   \* calls made in one behaviour of SpecHold
MaxTokens == 3     \* raw tokens handed to the tokenizer
MaxNgrams == 3     \* largest n-gram size
MaxMinLength == 2  \* largest min_length
MaxSnapshotOps == 3  \* calls made in one behaviour of SpecSnapshot
MaxListOps == 3   \* calls made in one behaviour of SpecMergeList
MaxQueryOps == 3  \* mutating calls made in one behaviour of SpecQuery

Terms == {"t1", "t2"}
Docs == {"d1", "d2"}
Idx == {"A", "B", "R"}

\* initial_terms arguments handed to the constructors (<<>>: None, or [])
SeedLists == {<<>>, <<"t1">>, <<"t1", "t2">>}

\* an optional argument: <<>> is None, <<x>> is the value x
None == <<>>
Some(x) == <<x>>

\* numbers handed to prune as min_value / max_value: <<p, q>> is p/q
PruneValues == {<<1, 2>>, <<1, 1>>, <<2, 1>>}

VARIABLES _documents, _terms, _freeze, heap, call, nops, held

vars == <<_documents, _terms, _freeze, heap, call, nops, held>>

\* ------------------------------------------------- dict / Counter helpers
\* `k in m`
In(k, m) == \E n \in DOMAIN m : m[n][1] = k

\* `m[k]` for a key that is present
Get(m, k) == m[CHOOSE n \in DOMAIN m : m[n][1] = k][2]

\* `m.get(k, 0)`, also Counter's `m[k]` for a missing key
GetOr0(m, k) == IF In(k, m) THEN Get(m, k) ELSE 0

\* `m[k] = v`: an existing key keeps its position, a new key goes last
Put(m, k, v) ==
    IF In(k, m)
    THEN [n \in DOMAIN m |-> IF m[n][1] = k THEN <<k, v>> ELSE m[n]]
    ELSE Append(m, <<k, v>>)

\* `del m[k]` for a key that is present
Del(m, k) == SelectSeq(m, LAMBDA e : e[1] # k)

\* `list(m)`: the keys in iteration order
KeyList(m) == [n \in DOMAIN m |-> m[n][1]]

\* the key set of m
Keys(m) == {m[n][1] : n \in DOMAIN m}

\* `sum(m.values())`
RECURSIVE SumValues(_)
SumValues(m) == IF m = <<>> THEN 0 ELSE m[1][2] + SumValues(Tail(m))

\* ------------------------------------------------------------- the heap
\* a reference not used by any object of h
NewRef(h) == CHOOSE o \in 1..(Cardinality(DOMAIN h) + 1) : o \notin DOMAIN h

\* a new, empty table of the given kind ("dict" or "Counter")
EmptyTable(kind) == [kind |-> kind, tab |-> <<>>]

\* objects no index refers to any more are freed
Collect(ts, h) ==
    LET live == UNION {{ts[i][n][2] : n \in DOMAIN ts[i]} : i \in Idx}
    IN  [o \in live |-> h[o]]

\* the per-document table of term in index i
Table(i, term) == heap[Get(_terms[i], term)].tab

\* ------------------------------------------------------- returned lists
\* held is the list object the caller keeps from an earlier terms() or
\* documents() call.  A list made by list(m) has its own items; an object
\* that is a view of a map (alias) shows the keys the map has now.
NoList == [alias |-> FALSE, self |-> "A", attr |-> "none", items |-> <<>>]

\* the map of index i named by attr: "terms" or "documents"
Map(i, attr) == IF attr = "terms" THEN _terms[i] ELSE _documents[i]

\* mutant of list: the object returned is a view of the map
list_is_view(i, attr) ==
    [alias |-> TRUE, self |-> i, attr |-> attr, items |-> <<>>]

\* `list(self._terms)` / `list(self._documents)`: a new list of the keys
list(i, attr) ==
    [alias |-> FALSE, self |-> i, attr |-> attr,
     items |-> KeyList(Map(i, attr))]

\* the items the caller finds in the object h
Items(h) == IF h.alias THEN KeyList(Map(h.self, h.attr)) ELSE h.items

\* ----------------------------------------------------------------- calls
\* the record of the last call: its name, receiver, arguments and the
\* exception it raised ("None" when it returned)
Call(op, self, args, raised) ==
    [op |-> op, self |-> self, args |-> args, raised |-> raised]

\* HashedIndex.__init__(initial_terms): the term map of a new index, with
\* its seeded tables allocated in h
RECURSIVE InitTerms(_, _, _)
InitTerms(initial_terms, ts, h) ==
    IF initial_terms = <<>> THEN [terms |-> ts, heap |-> h]
    ELSE LET term == Head(initial_terms)
             o == NewRef(h)
             h1 == [x \in DOMAIN h \cup {o} |->
                       IF x = o THEN EmptyTable("dict") ELSE h[x]]
         IN  InitTerms(Tail(initial_terms), Put(ts, term, o), h1)

\* the state after A = HashedIndex(sa), B = HashedIndex(sb), R = HashedIndex()
Construct(sa, sb) ==
    LET a == InitTerms(sa, <<>>, <<>>)
        b == InitTerms(sb, <<>>, a.heap)
    IN  /\ _documents = [i \in Idx |-> <<>>]
        /\ _terms = [i \in Idx |->
                       IF i = "A" THEN a.terms
                       ELSE IF i = "B" THEN b.terms ELSE <<>>]
        /\ _freeze = [i \in Idx |-> FALSE]
        /\ heap = b.heap
        /\ call = Call("__init__", "A", <<sa>>, "None")
        /\ nops = 0
        /\ held = NoList

Init == \E sa \in SeedLists : Construct(sa, <<>>)

InitMerge == \E sa \in SeedLists, sb \in {<<>>, <<"t1">>} : Construct(sa, sb)

\* ------------------------------------------------------------ operations
\* mutant of clear: the documents map is not reset
clear_keeps_documents(i) ==
    /\ _terms' = [_terms EXCEPT ![i] = <<>>]
    /\ heap' = Collect(_terms', heap)
    /\ call' = Call("clear", i, <<>>, "None")
    /\ nops' = nops + 1
    /\ UNCHANGED held
    /\ UNCHANGED <<_documents, _freeze>>

\* mutant of clear: the term map is not reset
clear_keeps_terms(i) ==
    /\ _documents' = [_documents EXCEPT ![i] = <<>>]
    /\ call' = Call("clear", i, <<>>, "None")
    /\ nops' = nops + 1
    /\ UNCHANGED held
    /\ UNCHANGED <<_terms, heap, _freeze>>

\* mutant of clear: the index is made anew, freeze flag included
clear_unfreezes(i) ==
    /\ _terms' = [_terms EXCEPT ![i] = <<>>]
    /\ _documents' = [_documents EXCEPT ![i] = <<>>]
    /\ _freeze' = [_freeze EXCEPT ![i] = FALSE]
    /\ heap' = Collect(_terms', heap)
    /\ call' = Call("clear", i, <<>>, "None")
    /\ nops' = nops + 1
    /\ UNCHANGED held

clear(i) ==
    /\ _terms' = [_terms EXCEPT ![i] = <<>>]
    /\ _documents' = [_documents EXCEPT ![i] = <<>>]
    /\ heap' = Collect(_terms', heap)
    /\ call' = Call("clear", i, <<>>, "None")
    /\ nops' = nops + 1
    /\ UNCHANGED held
    /\ UNCHANGED _freeze

freeze(i) ==
    /\ _freeze' = [_freeze EXCEPT ![i] = TRUE]
    /\ call' = Call("freeze", i, <<>>, "None")
    /\ nops' = nops + 1
    /\ UNCHANGED held
    /\ UNCHANGED <<_documents, _terms, heap>>

unfreeze(i) ==
    /\ _freeze' = [_freeze EXCEPT ![i] = FALSE]
    /\ call' = Call("unfreeze", i, <<>>, "None")
    /\ nops' = nops + 1
    /\ UNCHANGED held
    /\ UNCHANGED <<_documents, _terms, heap>>

\* `if k not in m: m[k] = 0`
\* mutant of SetDefault0: the entry is set to 0 also when it is there
SetDefault0Always(m, k) == Put(m, k, 0)

SetDefault0(m, k) == IF ~In(k, m) THEN Put(m, k, 0) ELSE m

\* mutant of Increment: the count is left as it is
IncrementForgotten(m, k) == m

\* `m[k] += 1` for a key that is present
Increment(m, k) == Put(m, k, Get(m, k) + 1)

\* mutant of Skips: a frozen index also rejects the terms it has
SkipsWheneverFrozen(ts, frozen, term) == frozen

\* mutant of Skips: the freeze flag is ignored
SkipsNever(ts, frozen, term) == FALSE

\* add_term_occurrence returns early: the term is new and the index frozen
Skips(ts, frozen, term) == ~In(term, ts) /\ frozen

\* mutant of AddDocuments: the document is counted before the early return
AddDocumentsBeforeReturn(docs, ts, frozen, term, document) ==
    Increment(SetDefault0(docs, document), document)

\* mutant of AddDocuments: the length is assigned, not added to
AddDocumentsAssignsOne(docs, ts, frozen, term, document) ==
    IF Skips(ts, frozen, term) THEN SetDefault0(docs, document)
    ELSE Put(docs, document, 1)

\* the documents map add_term_occurrence leaves
AddDocuments(docs, ts, frozen, term, document) ==
    LET docs1 == SetDefault0(docs, document)
    IN  IF Skips(ts, frozen, term) THEN docs1
        ELSE Increment(docs1, document)

add_term_occurrence(i, term, document) ==
    /\ call' = Call("add_term_occurrence", i, <<term, document>>, "None")
    /\ nops' = nops + 1
    /\ UNCHANGED held
    /\ UNCHANGED _freeze
    /\ _documents' = [_documents EXCEPT ![i] =
           AddDocuments(_documents[i], _terms[i], _freeze[i], term, document)]
    /\ IF Skips(_terms[i], _freeze[i], term)
       THEN UNCHANGED <<_terms, heap>>
       ELSE LET fresh == ~In(term, _terms[i])
                o == IF fresh THEN NewRef(heap) ELSE Get(_terms[i], term)
                obj == IF fresh THEN EmptyTable("Counter") ELSE heap[o]
                tab == Increment(SetDefault0(obj.tab, document), document)
            IN  /\ _terms' = [_terms EXCEPT ![i] =
                       IF fresh THEN Put(_terms[i], term, o) ELSE _terms[i]]
                /\ heap' = [x \in DOMAIN heap \cup {o} |->
                              IF x = o THEN [obj EXCEPT !.tab = tab]
                              ELSE heap[x]]

\* ------------------------------------------------------------------ prune
\* mutant of Less: the comparison is not strict
LessOrEqual(a, b) == a[1] * b[2] <= b[1] * a[2]

\* `a < b` for the numbers a = <<p, q>> and b = <<r, s>> (q, s > 0)
Less(a, b) == a[1] * b[2] < b[1] * a[2]

\* get_document_frequency(term) for a term of the term map ts
\* mutant of get_document_frequency: the occurrences are counted, not the
\* documents
get_document_frequency_sums_counts(ts, h, term) ==
    SumValues(h[Get(ts, term)].tab)

get_document_frequency(ts, h, term) == Len(h[Get(ts, term)].tab)

\* the first loop of prune: the garbage list built from the terms in ts_list
RECURSIVE Garbage(_, _, _, _, _, _, _)
Garbage(ts_list, ts, h, n_documents, min_value, max_value, use_percentile) ==
    IF ts_list = <<>> THEN <<>>
    ELSE LET term == Head(ts_list)
             df == get_document_frequency(ts, h, term)
             freq == IF use_percentile THEN <<df, n_documents>> ELSE <<df, 1>>
             g1 == IF min_value # None /\ Less(freq, min_value[1])
                   THEN <<term>> ELSE <<>>
             g2 == IF max_value # None /\ Less(max_value[1], freq)
                   THEN <<term>> ELSE <<>>
         IN  g1 \o g2 \o Garbage(Tail(ts_list), ts, h, n_documents,
                                 min_value, max_value, use_percentile)

\* the second loop of prune: `del self._terms[term]` for each term of
\* garbage; deleting a missing key raises KeyError and ends the loop
RECURSIVE DelAll(_, _)
DelAll(ts, garbage) ==
    IF garbage = <<>> THEN [terms |-> ts, raised |-> "None"]
    ELSE IF ~In(Head(garbage), ts) THEN [terms |-> ts, raised |-> "KeyError"]
    ELSE DelAll(Del(ts, Head(garbage)), Tail(garbage))

\* the outcome of prune on index i: the term map it leaves and the
\* exception it raises
PruneResult(i, min_value, max_value, use_percentile) ==
    LET n_documents == Len(_documents[i])
        ts_list == KeyList(_terms[i])
    IN  IF ts_list # <<>> /\ use_percentile /\ n_documents = 0
        THEN [terms |-> _terms[i], raised |-> "ZeroDivisionError"]
        ELSE DelAll(_terms[i],
                    Garbage(ts_list, _terms[i], heap, n_documents,
                            min_value, max_value, use_percentile))

\* mutant of prune: the documents no remaining term refers to are dropped
prune_drops_documents(i, min_value, max_value, use_percentile) ==
    LET res == PruneResult(i, min_value, max_value, use_percentile)
    IN  /\ _terms' = [_terms EXCEPT ![i] = res.terms]
        /\ heap' = Collect(_terms', heap)
        /\ _documents' = [_documents EXCEPT ![i] =
               SelectSeq(_documents[i],
                         LAMBDA e : \E n \in DOMAIN res.terms :
                                       In(e[1], heap[res.terms[n][2]].tab))]
        /\ call' = Call("prune", i, <<min_value, max_value, use_percentile>>,
                        res.raised)
        /\ nops' = nops + 1
        /\ UNCHANGED held
        /\ UNCHANGED _freeze

prune(i, min_value, max_value, use_percentile) ==
    LET res == PruneResult(i, min_value, max_value, use_percentile)
    IN  /\ _terms' = [_terms EXCEPT ![i] = res.terms]
        /\ heap' = Collect(_terms', heap)
        /\ call' = Call("prune", i, <<min_value, max_value, use_percentile>>,
                        res.raised)
        /\ nops' = nops + 1
        /\ UNCHANGED held
        /\ UNCHANGED <<_documents, _freeze>>

\* ------------------------------------------------------------------ merge
\* Counter.__add__ on two Counters: the counts of a plus those of b, then
\* the keys only b has; only positive counts are kept
\* mutant of CounterAdd: a key of both operands keeps the count of the
\* first
CounterAddKeepsFirst(a, b) ==
    SelectSeq(a, LAMBDA e : e[2] > 0) \o
    SelectSeq(b, LAMBDA e : ~In(e[1], a) /\ e[2] > 0)

CounterAdd(a, b) ==
    LET both == [n \in DOMAIN a |-> <<a[n][1], a[n][2] + GetOr0(b, a[n][1])>>]
    IN  SelectSeq(both, LAMBDA e : e[2] > 0) \o
        SelectSeq(b, LAMBDA e : ~In(e[1], a) /\ e[2] > 0)

\* mutant of MergeTerm: the counts of second_index are added into the
\* table the result holds, which may be a table of an argument
MergeTermInPlace(st, second_terms, term) ==
    IF st.raised # "None" THEN st
    ELSE IF In(term, st.terms) /\ In(term, second_terms)
    THEN LET x == st.heap[Get(st.terms, term)]
             y == st.heap[Get(second_terms, term)]
         IN  IF x.kind # "Counter" \/ y.kind # "Counter"
             THEN [st EXCEPT !.raised = "TypeError"]
             ELSE [st EXCEPT
                     !.heap = [@ EXCEPT ![Get(st.terms, term)] =
                                 [kind |-> "Counter",
                                  tab |-> CounterAdd(x.tab, y.tab)]]]
    ELSE IF In(term, second_terms)
    THEN [st EXCEPT !.terms = Put(st.terms, term, Get(second_terms, term))]
    ELSE [st EXCEPT !.raised = "ValueError"]

\* the body of merge's inner loop for one term of second_index; st is the
\* result under construction with the heap and the exception raised so far
MergeTerm(st, second_terms, term) ==
    IF st.raised # "None" THEN st
    ELSE IF In(term, st.terms) /\ In(term, second_terms)
    THEN LET x == st.heap[Get(st.terms, term)]
             y == st.heap[Get(second_terms, term)]
             o == NewRef(st.heap)
         IN  IF x.kind # "Counter" \/ y.kind # "Counter"
             THEN [st EXCEPT !.raised = "TypeError"]
             ELSE [st EXCEPT
                     !.terms = Put(st.terms, term, o),
                     !.heap = [z \in DOMAIN st.heap \cup {o} |->
                                 IF z = o
                                 THEN [kind |-> "Counter",
                                       tab |-> CounterAdd(x.tab, y.tab)]
                                 ELSE st.heap[z]]]
    ELSE IF In(term, second_terms)
    THEN [st EXCEPT !.terms = Put(st.terms, term, Get(second_terms, term))]
    ELSE [st EXCEPT !.raised = "ValueError"]

RECURSIVE MergeTerms(_, _, _)
MergeTerms(st, second_terms, ts_list) ==
    IF ts_list = <<>> THEN st
    ELSE MergeTerms(MergeTerm(st, second_terms, Head(ts_list)),
                    second_terms, Tail(ts_list))

\* the body of merge's outer loop for one index of index_list
MergeIndex(st, second_index) ==
    LET st1 == MergeTerms(st, _terms[second_index],
                          KeyList(_terms[second_index]))
    IN  IF st1.raised # "None" THEN st1
        ELSE [st1 EXCEPT
                !.documents = CounterAdd(st.documents,
                                         _documents[second_index])]

RECURSIVE MergeLoop(_, _)
MergeLoop(st, index_list) ==
    IF index_list = <<>> THEN st
    ELSE MergeLoop(MergeIndex(st, Head(index_list)), Tail(index_list))

\* merge(index_list): the new index (its two maps), the heap holding its
\* tables, and the exception raised
MergeResult(index_list) ==
    MergeLoop([documents |-> <<>>, terms |-> <<>>, heap |-> heap,
               raised |-> "None"], index_list)

\* the index lists handed to merge
IndexLists == UNION {[1..n -> Idx] : n \in 0..MaxList}

\* R = merge(index_list); when merge raises, R keeps its value
merge(index_list) ==
    LET res == MergeResult(index_list)
    IN  /\ call' = Call("merge", "R", <<index_list>>, res.raised)
        /\ nops' = nops + 1
        /\ UNCHANGED held
        /\ IF res.raised # "None"
           THEN UNCHANGED <<_documents, _terms, _freeze, heap>>
           ELSE /\ _documents' = [_documents EXCEPT !["R"] = res.documents]
                /\ _terms' = [_terms EXCEPT !["R"] = res.terms]
                /\ _freeze' = [_freeze EXCEPT !["R"] = FALSE]
                /\ heap' = Collect(_terms', res.heap)

\* ---------------------------------------------------------------- queries
\* A query returns [raised, result]: the exception it raises ("None" when
\* it returns) and the value it returns (the message when it raises).
\* A number is the fraction <<p, q>>, standing for p / q.
DOCUMENT_DOES_NOT_EXIST == "The specified document does not exist"
TERM_DOES_NOT_EXIST == "The specified term does not exist"

Return(x) == [raised |-> "None", result |-> x]
Raise(e, message) == [raised |-> e, result |-> message]

get_total_term_frequency(i, term) ==
    IF ~In(term, _terms[i]) THEN Raise("IndexError", TERM_DOES_NOT_EXIST)
    ELSE Return(<<SumValues(Table(i, term)), 1>>)

\* mutant of get_document_length: the Counter is read without the check
get_document_length_unchecked(i, document) ==
    Return(<<GetOr0(_documents[i], document), 1>>)

get_document_length(i, document) ==
    IF In(document, _documents[i])
    THEN Return(<<Get(_documents[i], document), 1>>)
    ELSE Raise("IndexError", DOCUMENT_DOES_NOT_EXIST)

\* `x /= y` on a returned number x.result = <<p, 1>> and a returned
\* integer y.result = <<q, 1>>
Divide(x, y) ==
    IF y.result[1] = 0 THEN Raise("ZeroDivisionError", "division by zero")
    ELSE Return(<<x.result[1], y.result[1]>>)

get_term_frequency(i, term, document, normalized) ==
    IF ~In(document, _documents[i])
    THEN Raise("IndexError", DOCUMENT_DOES_NOT_EXIST)
    ELSE IF ~In(term, _terms[i])
    THEN Raise("IndexError", TERM_DOES_NOT_EXIST)
    ELSE LET result == Return(<<GetOr0(Table(i, term), document), 1>>)
         IN  IF normalized
             THEN Divide(result, get_document_length(i, document))
             ELSE result

\* get_document_frequency(term) as a call, with its error
document_frequency(i, term) ==
    IF ~In(term, _terms[i]) THEN Raise("IndexError", TERM_DOES_NOT_EXIST)
    ELSE Return(<<get_document_frequency(_terms[i], heap, term), 1>>)

get_documents(i, term) ==
    IF ~In(term, _terms[i]) THEN Raise("IndexError", TERM_DOES_NOT_EXIST)
    ELSE Return(Table(i, term))

terms(i) == Return(KeyList(_terms[i]))

documents(i) == Return(KeyList(_documents[i]))

\* the number tf * log10(n / df), kept as its three parts
TfIdfValue(tf, n, df) == [tf |-> tf, n |-> n, df |-> df]

\* the literal 0.0 returned by get_tfidf
Zero == TfIdfValue(<<0, 1>>, 1, 1)

\* mutant of get_tfidf: the product is computed also for tf = 0
get_tfidf_unguarded(i, term, document, normalized) ==
    LET tf == get_term_frequency(i, term, document, FALSE)
    IN  IF tf.raised # "None" THEN tf
        ELSE LET df == 1 + document_frequency(i, term).result[1]
                 n == 2 + Len(_documents[i])
                 tf1 == IF normalized
                        THEN Divide(tf, get_document_length(i, document))
                        ELSE tf
             IN  IF tf1.raised # "None" THEN tf1
                 ELSE Return(TfIdfValue(tf1.result, n, df))

get_tfidf(i, term, document, normalized) ==
    LET tf == get_term_frequency(i, term, document, FALSE)
    IN  IF tf.raised # "None" THEN tf
        ELSE IF tf.result[1] # 0
        THEN LET df == 1 + document_frequency(i, term).result[1]
                 n == 2 + Len(_documents[i])
                 tf1 == IF normalized
                        THEN Divide(tf, get_document_length(i, document))
                        ELSE tf
             IN  IF tf1.raised # "None" THEN tf1
                 ELSE Return(TfIdfValue(tf1.result, n, df))
        ELSE Return(Zero)

\* the loop of get_total_tfidf over the documents in docs_list; the sum is
\* kept as the list of its summands
RECURSIVE TotalTfIdfLoop(_, _, _, _, _)
TotalTfIdfLoop(i, term, normalized, docs_list, result) ==
    IF docs_list = <<>> THEN Return(result)
    ELSE LET v == get_tfidf(i, term, Head(docs_list), normalized)
         IN  IF v.raised # "None" THEN v
             ELSE TotalTfIdfLoop(i, term, normalized, Tail(docs_list),
                                 Append(result, v.result))

get_total_tfidf(i, term, normalized) ==
    TotalTfIdfLoop(i, term, normalized, KeyList(_documents[i]), <<>>)

\* the values of mode: the four built-in names, a callable ("custom") and
\* anything else ("invalid")
Modes == {"tfidf", "ntfidf", "tf", "ntf", "custom", "invalid"}

\* the callable handed as mode: a weighting function of (index, term,
\* document), here one whose value names its arguments
custom_weighting(i, term, document) == Return(<<"weight", term, document>>)

\* selected_function(self, term, doc) for a valid mode
SelectedFunction(mode, i, term, doc) ==
    IF mode = "tfidf" THEN get_tfidf(i, term, doc, FALSE)
    ELSE IF mode = "ntfidf" THEN get_tfidf(i, term, doc, TRUE)
    ELSE IF mode = "tf" THEN get_term_frequency(i, term, doc, FALSE)
    ELSE IF mode = "ntf" THEN get_term_frequency(i, term, doc, TRUE)
    ELSE custom_weighting(i, term, doc)

\* the loop of generate_document_vector over the terms in ts_list
RECURSIVE DocumentVectorLoop(_, _, _, _, _)
DocumentVectorLoop(i, doc, mode, ts_list, result) ==
    IF ts_list = <<>> THEN Return(result)
    ELSE LET v == SelectedFunction(mode, i, Head(ts_list), doc)
         IN  IF v.raised # "None" THEN v
             ELSE DocumentVectorLoop(i, doc, mode, Tail(ts_list),
                                     Append(result, v.result))

\* mutant of generate_document_vector: the terms are taken last to first
generate_document_vector_reversed(i, doc, mode) ==
    LET ts == KeyList(_terms[i])
    IN  IF mode \notin {"tfidf", "ntfidf", "tf", "ntf", "custom"}
        THEN Raise("ValueError", "Unexpected mode: %s")
        ELSE DocumentVectorLoop(i, doc, mode,
                 [n \in DOMAIN ts |-> ts[Len(ts) + 1 - n]], <<>>)

generate_document_vector(i, doc, mode) ==
    IF mode \notin {"tfidf", "ntfidf", "tf", "ntf", "custom"}
    THEN Raise("ValueError", "Unexpected mode: %s")
    ELSE DocumentVectorLoop(i, doc, mode, KeyList(_terms[i]), <<>>)

\* the loop of generate_feature_matrix over the documents in docs_list
RECURSIVE FeatureMatrixLoop(_, _, _, _)
FeatureMatrixLoop(i, mode, docs_list, result) ==
    IF docs_list = <<>> THEN Return(result)
    ELSE LET v == generate_document_vector(i, Head(docs_list), mode)
         IN  IF v.raised # "None" THEN v
             ELSE FeatureMatrixLoop(i, mode, Tail(docs_list),
                                    Append(result, v.result))

generate_feature_matrix(i, mode) ==
    FeatureMatrixLoop(i, mode, KeyList(_documents[i]), <<>>)

\* dict == dict: the same keys with the same values
DictEq(a, b) ==
    /\ Keys(a) = Keys(b)
    /\ \A k \in Keys(a) : Get(a, k) = Get(b, k)

\* Counter == Counter: a missing key counts as 0 (Python 3.10 and later)
CounterEq(a, b) ==
    \A k \in Keys(a) \cup Keys(b) : GetOr0(a, k) = GetOr0(b, k)

\* i == j: the term maps are equal as dicts of tables, the documents as
\* Counters
__eq__(i, j) ==
    /\ Keys(_terms[i]) = Keys(_terms[j])
    /\ \A t \in Keys(_terms[i]) : DictEq(Table(i, t), Table(j, t))
    /\ CounterEq(_documents[i], _documents[j])

\* to_dict: the two maps, the term map with its tables
to_dict(i) ==
    Return([documents |-> _documents[i],
            terms |-> [n \in DOMAIN _terms[i] |->
                         <<_terms[i][n][1], heap[_terms[i][n][2]].tab>>]])

\* Counter(data['terms'][term]) for each term of data_terms: the term map
\* of from_dict, with its new tables allocated in h
RECURSIVE FromDictTerms(_, _, _)
FromDictTerms(data_terms, ts, h) ==
    IF data_terms = <<>> THEN [terms |-> ts, heap |-> h]
    ELSE LET o == NewRef(h)
             h1 == [x \in DOMAIN h \cup {o} |->
                       IF x = o
                       THEN [kind |-> "Counter", tab |-> Head(data_terms)[2]]
                       ELSE h[x]]
         IN  FromDictTerms(Tail(data_terms),
                           Put(ts, Head(data_terms)[1], o), h1)

\* mutant of from_dict: the documents of count 0 are not taken over
from_dict_drops_empty_documents(i, data) ==
    LET t == FromDictTerms(data.terms, <<>>, heap)
        IsPositive(p) == p[2] > 0
    IN  /\ _documents' = [_documents EXCEPT
                             ![i] = SelectSeq(data.documents, IsPositive)]
        /\ _terms' = [_terms EXCEPT ![i] = t.terms]
        /\ heap' = Collect(_terms', t.heap)
        /\ call' = Call("from_dict", i, <<data>>, "None")
        /\ nops' = nops + 1
        /\ UNCHANGED held
        /\ UNCHANGED _freeze

\* mutant of from_dict: the tables of the exporting index A are taken
\* over as they are, not copied
from_dict_shares_tables(i, data) ==
    /\ _documents' = [_documents EXCEPT ![i] = data.documents]
    /\ _terms' = [_terms EXCEPT ![i] = _terms["A"]]
    /\ heap' = Collect(_terms', heap)
    /\ call' = Call("from_dict", i, <<data>>, "None")
    /\ nops' = nops + 1
    /\ UNCHANGED held
    /\ UNCHANGED _freeze

from_dict(i, data) ==
    LET t == FromDictTerms(data.terms, <<>>, heap)
    IN  /\ _documents' = [_documents EXCEPT ![i] = data.documents]
        /\ _terms' = [_terms EXCEPT ![i] = t.terms]
        /\ heap' = Collect(_terms', t.heap)
        /\ call' = Call("from_dict", i, <<data>>, "None")
        /\ nops' = nops + 1
        /\ UNCHANGED held
        /\ UNCHANGED _freeze

\* a query on index i returns or raises r and changes nothing
Query(op, i, args, r) ==
    /\ call' = [op |-> op, self |-> i, args |-> args,
                raised |-> r.raised, result |-> r.result]
    /\ UNCHANGED <<_documents, _terms, _freeze, heap, nops, held>>

call_get_total_term_frequency(i, term) ==
    Query("get_total_term_frequency", i, <<term>>,
          get_total_term_frequency(i, term))

\* mutant of call_get_term_frequency: asking for an unknown document
\* records it with count 0
call_get_term_frequency_records_document(i, term, document, normalized) ==
    LET r == get_term_frequency(i, term, document, normalized)
    IN  /\ call' = [op |-> "get_term_frequency", self |-> i,
                    args |-> <<term, document, normalized>>,
                    raised |-> r.raised, result |-> r.result]
        /\ _documents' = [_documents EXCEPT
                             ![i] = IF In(document, @) THEN @
                                    ELSE Put(@, document, 0)]
        /\ UNCHANGED <<_terms, _freeze, heap, nops, held>>

call_get_term_frequency(i, term, document, normalized) ==
    Query("get_term_frequency", i, <<term, document, normalized>>,
          get_term_frequency(i, term, document, normalized))

call_get_document_frequency(i, term) ==
    Query("get_document_frequency", i, <<term>>, document_frequency(i, term))

call_get_document_length(i, document) ==
    Query("get_document_length", i, <<document>>,
          get_document_length(i, document))

call_get_documents(i, term) ==
    Query("get_documents", i, <<term>>, get_documents(i, term))

call_terms(i) == Query("terms", i, <<>>, terms(i))

call_documents(i) == Query("documents", i, <<>>, documents(i))

call_get_tfidf(i, term, document, normalized) ==
    Query("get_tfidf", i, <<term, document, normalized>>,
          get_tfidf(i, term, document, normalized))

call_get_total_tfidf(i, term, normalized) ==
    Query("get_total_tfidf", i, <<term, normalized>>,
          get_total_tfidf(i, term, normalized))

call_generate_document_vector(i, doc, mode) ==
    Query("generate_document_vector", i, <<doc, mode>>,
          generate_document_vector(i, doc, mode))

call_generate_feature_matrix(i, mode) ==
    Query("generate_feature_matrix", i, <<mode>>,
          generate_feature_matrix(i, mode))

call_to_dict(i) == Query("to_dict", i, <<>>, to_dict(i))

\* ------------------------------------------------------ the caller's list
\* x = i.terms() / x = i.documents(): the caller keeps the returned object
assign(i, attr) ==
    /\ held' = list(i, attr)
    /\ call' = [op |-> attr, self |-> i, args |-> <<>>,
                raised |-> "None", result |-> Items(held')]
    /\ UNCHANGED <<_documents, _terms, _freeze, heap, nops>>

\* del x[n] on the kept object: a list loses its n-th item; a view of a
\* map would lose the key in the map
delitem(n) ==
    /\ held.attr # "none"
    /\ n \in DOMAIN Items(held)
    /\ call' = Call("list.__delitem__", held.self, <<n>>, "None")
    /\ nops' = nops + 1
    /\ IF held.alias
       THEN /\ IF held.attr = "terms"
               THEN /\ _terms' = [_terms EXCEPT
                          ![held.self] = Del(@, Items(held)[n])]
                    /\ heap' = Collect(_terms', heap)
                    /\ UNCHANGED _documents
               ELSE /\ _documents' = [_documents EXCEPT
                          ![held.self] = Del(@, Items(held)[n])]
                    /\ UNCHANGED <<_terms, heap>>
            /\ UNCHANGED <<held, _freeze>>
       ELSE /\ held' = [held EXCEPT
                          !.items = [k \in 1..(Len(@) - 1) |->
                                       IF k < n THEN @[k] ELSE @[k + 1]]]
            /\ UNCHANGED <<_documents, _terms, _freeze, heap>>

\* ------------------------------------------------------------ textparser
\* A token is the sequence of its characters.  The raw tokens handed to
\* get_ngrams are those match_tokens yields for the text.
Characters == {"a", "s", "1"}
TokenSet == {<<"a">>, <<"a", "s">>, <<"1">>}
TokenLists == UNION {[1..n -> TokenSet] : n \in 0..MaxTokens}
StopwordSets == {{}, {<<"a">>}}

\* the objects handed as stemmer: NullStemmer (returns the token), a
\* stemmer removing a final "s", a stemmer returning '', an object without
\* a stem attribute, and an object whose stem attribute is not callable
NullStemmer == [hasattr_stem |-> TRUE, callable_stem |-> TRUE, stem |-> "null"]
StemmerObjects ==
    {NullStemmer,
     [hasattr_stem |-> TRUE, callable_stem |-> TRUE, stem |-> "plural"],
     [hasattr_stem |-> TRUE, callable_stem |-> TRUE, stem |-> "empty"],
     [hasattr_stem |-> FALSE, callable_stem |-> FALSE, stem |-> "missing"],
     [hasattr_stem |-> TRUE, callable_stem |-> FALSE, stem |-> "None"]}

\* stemmer.stem(token)
stem(stemmer, token) ==
    IF stemmer.stem = "null" THEN token
    ELSE IF stemmer.stem = "empty" THEN <<>>
    ELSE IF token # <<>> /\ token[Len(token)] = "s"
    THEN SubSeq(token, 1, Len(token) - 1)
    ELSE token

\* isnumeric(text): float(text) does not raise; over Characters that is a
\* non-empty sequence of digits
isnumeric(text) == text # <<>> /\ \A k \in DOMAIN text : text[k] = "1"

\* the loop of get_ngrams over the tokens left after the first n-gram
RECURSIVE NgramLoop(_, _, _)
NgramLoop(ngram, tokens, yielded) ==
    IF tokens = <<>> THEN yielded
    ELSE LET next == Tail(ngram) \o <<Head(tokens)>>
         IN  NgramLoop(next, Tail(tokens), Append(yielded, next))

\* mutant of get_ngrams: the window moves on by n tokens
get_ngrams_disjoint(token_list, n) ==
    [k \in 1..(Len(token_list) \div n) |->
        SubSeq(token_list, (k - 1) * n + 1, k * n)]

\* get_ngrams(token_list, n): the n-grams it yields, in order
get_ngrams(token_list, n) ==
    IF Len(token_list) < n THEN <<>>
    ELSE LET ngram == SubSeq(token_list, 1, n)
         IN  NgramLoop(ngram, SubSeq(token_list, n + 1, Len(token_list)),
                       <<ngram>>)

\* mutant of validate_stemmer: only the presence of stem is checked
validate_stemmer_hasattr_only(stemmer) ==
    IF ~stemmer.hasattr_stem
    THEN Raise("InvalidStemmerException",
               "Stemmer is missing a \"stem\" function")
    ELSE Return(None)

validate_stemmer(stemmer) ==
    IF ~stemmer.hasattr_stem
    THEN Raise("InvalidStemmerException",
               "Stemmer is missing a \"stem\" function")
    ELSE IF ~stemmer.callable_stem
    THEN Raise("InvalidStemmerException",
               "Stemmer has a \"stem\" attribute but it is not a function")
    ELSE Return(None)

\* the inner loop of word_tokenize over the tokens of one n-gram:
\* [broken, output_tokens]
RECURSIVE TokenLoop(_, _, _, _, _, _)
TokenLoop(ngram, stopwords, min_length, ignore_numeric, stemmer, output_tokens) ==
    IF ngram = <<>> THEN [broken |-> FALSE, output_tokens |-> output_tokens]
    ELSE LET token == stem(stemmer, Head(ngram))
         IN  IF Len(token) < min_length \/ token \in stopwords
             THEN [broken |-> TRUE, output_tokens |-> output_tokens]
             ELSE IF ignore_numeric /\ isnumeric(token)
             THEN [broken |-> TRUE, output_tokens |-> output_tokens]
             ELSE TokenLoop(Tail(ngram), stopwords, min_length,
                            ignore_numeric, stemmer,
                            Append(output_tokens, token))

\* the outer loop of word_tokenize over the n-grams
RECURSIVE WindowLoop(_, _, _, _, _, _)
WindowLoop(ngram_list, stopwords, min_length, ignore_numeric, stemmer, yielded) ==
    IF ngram_list = <<>> THEN yielded
    ELSE LET r == TokenLoop(Head(ngram_list), stopwords, min_length,
                            ignore_numeric, stemmer, <<>>)
         IN  WindowLoop(Tail(ngram_list), stopwords, min_length,
                        ignore_numeric, stemmer,
                        IF r.broken THEN yielded
                        ELSE Append(yielded, r.output_tokens))

\* mutant of word_tokenize: a failing token is left out of its n-gram and
\* the rest of the n-gram is yielded
word_tokenize_skips_failing_tokens(matched_tokens, stopwords, ngrams, min_length, ignore_numeric, stemmer) ==
    LET ngrams1 == IF ngrams = None THEN 1 ELSE ngrams[1]
        stemmer1 == IF stemmer = None THEN NullStemmer ELSE stemmer[1]
        v == validate_stemmer(stemmer1)
        Kept(token) == ~TokenLoop(<<token>>, stopwords, min_length,
                                  ignore_numeric, stemmer1, <<>>).broken
        ngram_list == get_ngrams(matched_tokens, ngrams1)
    IN  IF v.raised # "None" THEN v
        ELSE Return([k \in DOMAIN ngram_list |->
                        LET kept == SelectSeq(ngram_list[k], Kept)
                        IN  [m \in DOMAIN kept |-> stem(stemmer1, kept[m])]])

\* mutant of word_tokenize: the tokens are filtered first and the n-grams
\* are taken over the stemmed tokens that are left
word_tokenize_filters_first(matched_tokens, stopwords, ngrams, min_length, ignore_numeric, stemmer) ==
    LET ngrams1 == IF ngrams = None THEN 1 ELSE ngrams[1]
        stemmer1 == IF stemmer = None THEN NullStemmer ELSE stemmer[1]
        v == validate_stemmer(stemmer1)
        Kept(token) == ~TokenLoop(<<token>>, stopwords, min_length,
                                  ignore_numeric, stemmer1, <<>>).broken
        kept == SelectSeq(matched_tokens, Kept)
    IN  IF v.raised # "None" THEN v
        ELSE Return(get_ngrams([k \in DOMAIN kept |-> stem(stemmer1, kept[k])],
                               ngrams1))

\* word_tokenize from the tokens matched in the text on: the tuples it
\* yields, in order, or the exception raised before the first
word_tokenize(matched_tokens, stopwords, ngrams, min_length, ignore_numeric, stemmer) ==
    LET ngrams1 == IF ngrams = None THEN 1 ELSE ngrams[1]
        stemmer1 == IF stemmer = None THEN NullStemmer ELSE stemmer[1]
        v == validate_stemmer(stemmer1)
    IN  IF v.raised # "None" THEN v
        ELSE Return(WindowLoop(get_ngrams(matched_tokens, ngrams1),
                               stopwords, min_length, ignore_numeric,
                               stemmer1, <<>>))

\* the arguments of one call of the tokenizer
ParserInputs ==
    [matched_tokens : TokenLists, stopwords : StopwordSets,
     ngrams : {None} \cup {Some(n) : n \in 1..MaxNgrams},
     min_length : 0..MaxMinLength, ignore_numeric : BOOLEAN,
     stemmer : {None} \cup {Some(s) : s \in StemmerObjects}]

\* the index is not used; call holds the arguments drawn
InitParser ==
    \E x \in ParserInputs :
        /\ _documents = [i \in Idx |-> <<>>]
        /\ _terms = [i \in Idx |-> <<>>]
        /\ _freeze = [i \in Idx |-> FALSE]
        /\ heap = <<>>
        /\ nops = 0
        /\ held = NoList
        /\ call = [op |-> "input", self |-> "textparser", args |-> x,
                   raised |-> "None"]

\* a function of textparser is applied to the arguments drawn
Parse(op, r) ==
    /\ call.op = "input"
    /\ call' = [op |-> op, self |-> "textparser", args |-> call.args,
                raised |-> r.raised, result |-> r.result]
    /\ UNCHANGED <<_documents, _terms, _freeze, heap, nops, held>>

\* list(word_tokenize(...))
call_word_tokenize ==
    Parse("word_tokenize",
          word_tokenize(call.args.matched_tokens, call.args.stopwords,
                        call.args.ngrams, call.args.min_length,
                        call.args.ignore_numeric, call.args.stemmer))

\* list(get_ngrams(token_list, n)), n being 2 when not given
call_get_ngrams ==
    Parse("get_ngrams",
          Return(get_ngrams(call.args.matched_tokens,
                            IF call.args.ngrams = None THEN 2
                            ELSE call.args.ngrams[1])))

call_validate_stemmer ==
    /\ call.args.stemmer # None
    /\ Parse("validate_stemmer", validate_stemmer(call.args.stemmer[1]))

\* the optional bounds handed to prune
PruneArgs == {None} \cup {Some(v) : v \in PruneValues}

\* calls on one index (the index under test is A)
Next ==
    \/ nops < MaxOps /\ clear("A")
    \/ nops < MaxOps /\ freeze("A")
    \/ nops < MaxOps /\ unfreeze("A")
    \/ nops < MaxOps /\ \E term \in Terms, document \in Docs :
          add_term_occurrence("A", term, document)
    \/ nops < MaxOps /\ \E min_value \in PruneArgs, max_value \in PruneArgs,
          use_percentile \in BOOLEAN :
          prune("A", min_value, max_value, use_percentile)

Spec == Init /\ [][Next]_vars

\* calls on the three indexes, and merge
NextMerge ==
    \/ nops < MaxMergeOps /\ \E i \in Idx : freeze(i)
    \/ nops < MaxMergeOps /\ \E i \in Idx : unfreeze(i)
    \/ nops < MaxMergeOps /\ \E i \in Idx, term \in Terms, document \in Docs :
          add_term_occurrence(i, term, document)
    \/ nops < MaxMergeOps /\ \E index_list \in IndexLists : merge(index_list)

SpecMerge == InitMerge /\ [][NextMerge]_vars

\* calls on index A, its queries included, and B.from_dict(A.to_dict())
\* merges of two indexes: A and B are built by add_term_occurrence in
\* either freeze state, and any two of A, B and the last result R are
\* merged
NextMergePair ==
    \/ nops < MaxPairOps /\ \E i \in {"A", "B"} : freeze(i)
    \/ nops < MaxPairOps /\ \E i \in {"A", "B"} : unfreeze(i)
    \/ nops < MaxPairOps /\ \E i \in {"A", "B"}, term \in Terms,
                               document \in Docs :
           add_term_occurrence(i, term, document)
    \/ nops < MaxPairOps /\ \E i, j \in Idx : merge(<<i, j>>)

SpecMergePair == InitMerge /\ [][NextMergePair]_vars

\* one index and a list the caller keeps from terms() or documents()
NextHold ==
    \/ nops < MaxHoldOps /\ clear("A")
    \/ nops < MaxHoldOps /\ freeze("A")
    \/ nops < MaxHoldOps /\ \E term \in Terms, document \in Docs :
          add_term_occurrence("A", term, document)
    \/ nops < MaxHoldOps /\ \E min_value \in PruneArgs :
          prune("A", min_value, None, FALSE)
    \/ \E attr \in {"terms", "documents"} : assign("A", attr)
    \/ nops < MaxHoldOps /\ \E n \in 1..2 : delitem(n)

SpecHold == Init /\ [][NextHold]_vars

\* the functions of textparser, applied to arguments drawn at the start
NextParser ==
    \/ call_word_tokenize
    \/ call_get_ngrams
    \/ call_validate_stemmer

SpecParser == InitParser /\ [][NextParser]_vars

\* two indexes, B loaded from a snapshot of A, both changed afterwards
NextSnapshot ==
    \/ nops < MaxSnapshotOps /\ \E i \in {"A", "B"} : clear(i)
    \/ nops < MaxSnapshotOps /\ \E i \in {"A", "B"} : freeze(i)
    \/ nops < MaxSnapshotOps /\ \E i \in {"A", "B"}, term \in Terms,
                                  document \in Docs :
           add_term_occurrence(i, term, document)
    \/ nops < MaxSnapshotOps /\ \E i \in {"A", "B"}, min_value \in PruneArgs :
           prune(i, min_value, None, FALSE)
    \/ nops < MaxSnapshotOps /\ from_dict("B", to_dict("A").result)

SpecSnapshot == Init /\ [][NextSnapshot]_vars

\* merges of lists of any length: A and B are built by
\* add_term_occurrence, A in either freeze state, and lists over A, B and
\* the last result R are merged
NextMergeList ==
    \/ nops < MaxListOps /\ freeze("A")
    \/ nops < MaxListOps /\ \E i \in {"A", "B"}, term \in Terms,
                               document \in Docs :
           add_term_occurrence(i, term, document)
    \/ nops < MaxListOps /\ \E index_list \in IndexLists : merge(index_list)

SpecMergeList == InitMerge /\ [][NextMergeList]_vars

NextQuery ==
    \/ nops < MaxQueryOps /\ clear("A")
    \/ nops < MaxQueryOps /\ freeze("A")
    \/ nops < MaxQueryOps /\ unfreeze("A")
    \/ nops < MaxQueryOps /\ \E term \in Terms, document \in Docs :
          add_term_occurrence("A", term, document)
    \/ nops < MaxQueryOps /\ \E min_value \in PruneArgs :
          prune("A", min_value, None, FALSE)
    \/ nops < MaxQueryOps /\ from_dict("B", to_dict("A").result)
    \/ \E term \in Terms : call_get_total_term_frequency("A", term)
    \/ \E term \in Terms, document \in Docs, normalized \in BOOLEAN :
          call_get_term_frequency("A", term, document, normalized)
    \/ \E term \in Terms : call_get_document_frequency("A", term)
    \/ \E document \in Docs : call_get_document_length("A", document)
    \/ \E term \in Terms : call_get_documents("A", term)
    \/ call_terms("A")
    \/ call_documents("A")
    \/ \E term \in Terms, document \in Docs, normalized \in BOOLEAN :
          call_get_tfidf("A", term, document, normalized)
    \/ \E term \in Terms, normalized \in BOOLEAN :
          call_get_total_tfidf("A", term, normalized)
    \/ \E doc \in Docs, mode \in Modes :
          call_generate_document_vector("A", doc, mode)
    \/ \E mode \in Modes : call_generate_feature_matrix("A", mode)
    \/ call_to_dict("A")

SpecQuery == Init /\ [][NextQuery]_vars

\* ================================================================= claims
\* terms[t][d] in the term map ts with tables in h, a missing term or
\* entry counting as 0
Count(ts, h, t, d) == IF In(t, ts) THEN GetOr0(h[Get(ts, t)].tab, d) ELSE 0

\* the sum over the terms t of ts of terms[t][d]
RECURSIVE SumTables(_, _, _)
SumTables(ts, h, d) ==
    IF ts = <<>> THEN 0
    ELSE GetOr0(h[ts[1][2]].tab, d) + SumTables(Tail(ts), h, d)

\* documents[d] equals the sum of terms[t][d], for every document of A
DocLengthIsSum ==
    \A d \in Keys(_documents["A"]) :
        Get(_documents["A"], d) = SumTables(_terms["A"], heap, d)

\* the step is a prune call that removes a term having occurrences
PruneRemovesOccurrences ==
    /\ call'.op = "prune"
    /\ \E t \in Keys(_terms["A"]) \ Keys(_terms'["A"]) : Table("A", t) # <<>>

\* the step is add_term_occurrence(term, document) on A
IsAdd == call'.op = "add_term_occurrence"

\* C1 (as stated): in every state reachable by add_term_occurrence, freeze,
\* unfreeze, clear and prune, documents[d] is the sum over the terms t of
\* terms[t][d], for every document d.
C1_SumInvariant == DocLengthIsSum

\* C1 (amended): the equality holds for a new index and every call keeps
\* it, except a prune call that removes a term having occurrences.
C1_SumKeptExceptByPrune ==
    /\ DocLengthIsSum
    /\ [][(DocLengthIsSum /\ ~PruneRemovesOccurrences) => DocLengthIsSum']_vars

C1_Witness ==
    /\ DocLengthIsSum
    /\ call.op = "prune" /\ call.raised = "None"
    /\ \E d \in Keys(_documents["A"]) : Get(_documents["A"], d) >= 2
    /\ Cardinality(Keys(_terms["A"])) = 1

\* C2: add_term_occurrence(term, document), called when the index is not
\* frozen or the term is in the term map, raises terms[term][document] and
\* documents[document] by exactly 1 (an absent key counting as 0 and being
\* created) and leaves every other count, the other terms and the freeze
\* flag as they were.
C2_AddIncrementsByOne ==
    [][(IsAdd /\ (~_freeze["A"] \/ In(call'.args[1], _terms["A"]))) =>
        LET term == call'.args[1]
            document == call'.args[2]
        IN  /\ In(term, _terms'["A"])
            /\ In(document, heap'[Get(_terms'["A"], term)].tab)
            /\ Count(_terms'["A"], heap', term, document)
                 = Count(_terms["A"], heap, term, document) + 1
            /\ In(document, _documents'["A"])
            /\ Get(_documents'["A"], document)
                 = GetOr0(_documents["A"], document) + 1
            /\ \A d \in Docs \ {document} :
                 /\ In(d, _documents'["A"]) <=> In(d, _documents["A"])
                 /\ GetOr0(_documents'["A"], d) = GetOr0(_documents["A"], d)
            /\ \A t \in Terms, d \in Docs :
                 <<t, d>> # <<term, document>> =>
                    Count(_terms'["A"], heap', t, d)
                      = Count(_terms["A"], heap, t, d)
            /\ Keys(_terms'["A"]) \ {term} = Keys(_terms["A"]) \ {term}
            /\ _freeze' = _freeze]_vars

C2_Witness ==
    /\ call.op = "add_term_occurrence"
    /\ _freeze["A"]
    /\ In(call.args[1], _terms["A"])
    /\ Count(_terms["A"], heap, call.args[1], call.args[2]) = 2
    /\ Cardinality(Keys(_documents["A"])) = 2

\* C3: while the index is frozen no add_term_occurrence call changes the
\* set of term keys, and a call whose term is not in the term map changes
\* no per-term table; the same call on an index that is not frozen adds
\* the term.
C3_FreezeGatesTermCreation ==
    [][IsAdd =>
        LET term == call'.args[1]
        IN  /\ _freeze["A"] => Keys(_terms'["A"]) = Keys(_terms["A"])
            /\ (_freeze["A"] /\ ~In(term, _terms["A"])) =>
                  /\ _terms'["A"] = _terms["A"]
                  /\ \A t \in Keys(_terms["A"]) :
                        heap'[Get(_terms'["A"], t)] = heap[Get(_terms["A"], t)]
            /\ ~_freeze["A"] => In(term, _terms'["A"])]_vars

C3_Witness ==
    /\ call.op = "add_term_occurrence"
    /\ _freeze["A"]
    /\ ~In(call.args[1], _terms["A"])
    /\ \E t \in Keys(_terms["A"]) : Table("A", t) # <<>>

\* C4 (as stated): when the index is frozen and the term is not in the term
\* map, add_term_occurrence leaves the term map alone, creates the document
\* if absent and increments its count in documents.
C4_FrozenAddIncrementsDocument ==
    [][(IsAdd /\ _freeze["A"] /\ ~In(call'.args[1], _terms["A"])) =>
        /\ _terms'["A"] = _terms["A"]
        /\ In(call'.args[2], _documents'["A"])
        /\ Get(_documents'["A"], call'.args[2])
             = GetOr0(_documents["A"], call'.args[2]) + 1]_vars

\* C4 (amended): when the index is frozen and the term is not in the term
\* map, add_term_occurrence leaves the term map alone and creates the
\* document with count 0 if it is absent; no count in documents changes.
C4_FrozenAddCreatesDocument ==
    [][(IsAdd /\ _freeze["A"] /\ ~In(call'.args[1], _terms["A"])) =>
        /\ _terms'["A"] = _terms["A"]
        /\ In(call'.args[2], _documents'["A"])
        /\ Keys(_documents'["A"]) = Keys(_documents["A"]) \cup {call'.args[2]}
        /\ \A d \in Docs :
             GetOr0(_documents'["A"], d) = GetOr0(_documents["A"], d)]_vars

C4_Witness ==
    /\ call.op = "add_term_occurrence"
    /\ _freeze["A"]
    /\ ~In(call.args[1], _terms["A"])
    /\ Get(_documents["A"], call.args[2]) = 0
    /\ \E d \in Keys(_documents["A"]) : Get(_documents["A"], d) > 0

\* the step is prune(min_value, max_value, use_percentile) on A
IsPrune == call'.op = "prune"

\* the frequency of term t that prune compares, as the fraction <<df, n>>
Frequency(t, use_percentile) ==
    <<Len(Table("A", t)),
      IF use_percentile THEN Len(_documents["A"]) ELSE 1>>

\* the frequency f = <<df, n>> lies within the optional inclusive bounds
WithinBounds(f, min_value, max_value) ==
    /\ min_value = None \/ f[1] * min_value[1][2] >= min_value[1][1] * f[2]
    /\ max_value = None \/ f[1] * max_value[1][2] <= max_value[1][1] * f[2]

\* C7: after prune(min_value, max_value, use_percentile) returns, the term
\* map holds exactly the terms it held before whose frequency f (document
\* frequency, divided by the number of documents when use_percentile) has
\* (min_value unset or f >= min_value) and (max_value unset or
\* f <= max_value).
C7_PruneKeepsTermsWithinBounds ==
    [][(IsPrune /\ call'.raised = "None") =>
        Keys(_terms'["A"]) =
           {t \in Keys(_terms["A"]) :
               WithinBounds(Frequency(t, call'.args[3]),
                            call'.args[1], call'.args[2])}]_vars

C7_Witness ==
    /\ call.op = "prune" /\ call.raised = "None"
    /\ call.args[1] # None /\ call.args[3]
    /\ Cardinality(Keys(_terms["A"])) = 1
    /\ \A t \in Keys(_terms["A"]) :
          /\ Frequency(t, TRUE) = <<2, 2>>
          /\ call.args[1] = Some(<<1, 1>>)
    /\ \E d \in Keys(_documents["A"]) :
          Get(_documents["A"], d) > SumTables(_terms["A"], heap, d)

\* C8: prune changes only the set of term keys: the documents map (keys,
\* order and counts) and the freeze flag are as before, and every term
\* left in the term map was there before with the same per-document table.
C8_PruneChangesOnlyTermKeys ==
    [][IsPrune =>
        /\ _documents' = _documents
        /\ _freeze' = _freeze
        /\ \A t \in Keys(_terms'["A"]) :
              /\ In(t, _terms["A"])
              /\ heap'[Get(_terms'["A"], t)] = heap[Get(_terms["A"], t)]]_vars

C8_Witness ==
    /\ call.op = "prune" /\ call.raised = "None"
    /\ _freeze["A"]
    /\ \E t \in Keys(_terms["A"]) : Table("A", t) # <<>>
    /\ \E d \in Keys(_documents["A"]) :
          /\ \A t \in Keys(_terms["A"]) : ~In(d, Table("A", t))
          /\ Get(_documents["A"], d) > 0

\* C9: prune completes without raising for every combination of its
\* arguments in every index state.
C9_PruneNeverRaises == call.op = "prune" => call.raised = "None"

\* the step is R = merge(index_list) and merge returned
MergeReturns == call'.op = "merge" /\ call'.raised = "None"

\* the sum of f(index_list[k]) over the positions k of index_list
SumOver(index_list, f(_)) ==
    SumValues([k \in DOMAIN index_list |-> <<k, f(index_list[k])>>])

\* C5: the index returned by merge(L) has, for every document d, the sum
\* of the inputs' documents[d]; its document keys are the union of the
\* inputs' document keys, its term keys the union of the inputs' term
\* keys; and for every term t and document d its terms[t][d] is the sum of
\* the inputs' terms[t][d] (absent entries counting as 0).
C5_MergeIsSumAndUnion ==
    [][MergeReturns =>
        LET L == call'.args[1]
        IN  /\ \A d \in Docs :
                 LET DocCount(j) == GetOr0(_documents[j], d)
                 IN  GetOr0(_documents'["R"], d) = SumOver(L, DocCount)
            /\ Keys(_documents'["R"]) =
                 UNION {Keys(_documents[L[k]]) : k \in DOMAIN L}
            /\ Keys(_terms'["R"]) =
                 UNION {Keys(_terms[L[k]]) : k \in DOMAIN L}
            /\ \A t \in Terms, d \in Docs :
                 LET TermCount(j) == Count(_terms[j], heap, t, d)
                 IN  Count(_terms'["R"], heap', t, d) = SumOver(L, TermCount)
      ]_vars

\* the documents map and the per-term tables of index j are as before
IndexUnchanged(j) ==
    /\ _documents'[j] = _documents[j]
    /\ _terms'[j] = _terms[j]
    /\ \A t \in Keys(_terms[j]) :
          heap'[Get(_terms'[j], t)] = heap[Get(_terms[j], t)]

\* C6: the index R returned by merge shares no mutable state with the
\* other indexes: add_term_occurrence on R leaves the documents map and
\* the per-term tables of A and B unchanged, and add_term_occurrence on A
\* or B leaves R unchanged.
C6_MergeResultSharesNothing ==
    [][call'.op = "add_term_occurrence" =>
        /\ call'.self = "R" => IndexUnchanged("A") /\ IndexUnchanged("B")
        /\ call'.self # "R" => IndexUnchanged("R")]_vars

\* C10: merge(index_list) returns without raising for every list of
\* indexes.
C10_MergeNeverRaises == call.op = "merge" => call.raised = "None"

\* the queries that name a term
TermQueries == {"get_total_term_frequency", "get_document_frequency",
                "get_documents", "get_term_frequency"}

\* the index state (all but the record of the call) is as before
IndexStateUnchanged == UNCHANGED <<_documents, _terms, _freeze, heap>>

\* C11: for every term of the term map and every document of documents,
\* get_term_frequency(term, document, normalized=True) returns the stored
\* count divided by the document's length and never fails with a division
\* by zero.
C11_NormalizedFrequencyNeverDividesByZero ==
    (/\ call.op = "get_term_frequency"
     /\ call.args[3]
     /\ In(call.args[1], _terms["A"])
     /\ In(call.args[2], _documents["A"])) =>
        /\ call.raised = "None"
        /\ call.result = <<GetOr0(Table("A", call.args[1]), call.args[2]),
                           Get(_documents["A"], call.args[2])>>

\* C12: get_total_term_frequency, get_document_frequency, get_documents
\* and get_term_frequency raise IndexError exactly when their term is not
\* a key of the term map (get_term_frequency: or its document is not a key
\* of documents), get_document_length exactly when its document is not a
\* key of documents; the failing call changes nothing.
C12_IndexErrorExactlyForUnknownKeys ==
    [][(call'.op \in TermQueries \cup {"get_document_length"}) =>
        LET unknown ==
              IF call'.op = "get_document_length"
              THEN ~In(call'.args[1], _documents["A"])
              ELSE \/ ~In(call'.args[1], _terms["A"])
                   \/ /\ call'.op = "get_term_frequency"
                      /\ ~In(call'.args[2], _documents["A"])
        IN  /\ call'.raised = "IndexError" <=> unknown
            /\ call'.raised = "IndexError" => IndexStateUnchanged]_vars

C12_Witness ==
    /\ call.op = "get_term_frequency"
    /\ call.raised = "IndexError"
    /\ call.result = TERM_DOES_NOT_EXIST
    /\ GetOr0(_documents["A"], call.args[2]) > 0
    /\ _terms["A"] = <<>>

\* the sum of get_term_frequency(t, d) over the documents of docs_list
RECURSIVE SumOfFrequencies(_, _, _)
SumOfFrequencies(i, t, docs_list) ==
    IF docs_list = <<>> THEN 0
    ELSE get_term_frequency(i, t, Head(docs_list), FALSE).result[1]
         + SumOfFrequencies(i, t, Tail(docs_list))

\* C13: for every term t of the term map the queries agree:
\* get_term_frequency(t, d) is the stored count, or 0 without error for a
\* known document d with no entry for t; get_total_term_frequency(t) is
\* the sum of get_term_frequency(t, d) over documents(); and
\* get_document_frequency(t) is the number of d in documents() with
\* get_term_frequency(t, d) > 0.
C13_QueriesAgree ==
    \A t \in Keys(_terms["A"]) :
        /\ \A d \in Keys(_documents["A"]) :
              get_term_frequency("A", t, d, FALSE) =
                  Return(<<Count(_terms["A"], heap, t, d), 1>>)
        /\ get_total_term_frequency("A", t) =
              Return(<<SumOfFrequencies("A", t, documents("A").result), 1>>)
        /\ document_frequency("A", t) =
              Return(<<Cardinality(
                  {n \in DOMAIN documents("A").result :
                      get_term_frequency("A", t, documents("A").result[n],
                                         FALSE).result[1] > 0}), 1>>)

C13_Witness ==
    /\ call.op = "get_document_frequency"
    /\ call.raised = "None"
    /\ call.result = <<1, 1>>
    /\ Len(_documents["A"]) = 2
    /\ get_total_term_frequency("A", call.args[1]).result = <<2, 1>>
    /\ \E d \in Keys(_documents["A"]) :
          get_term_frequency("A", call.args[1], d, FALSE).result = <<0, 1>>

\* indexes i and j have the same document keys with the same counts and
\* the same term keys with the same per-document counts
SameContent(i, j) ==
    /\ DictEq(_documents[i], _documents[j])
    /\ Keys(_terms[i]) = Keys(_terms[j])
    /\ \A t \in Keys(_terms[i]) : DictEq(Table(i, t), Table(j, t))

\* C14: after Y.from_dict(X.to_dict()) the index Y has the same document
\* keys and counts and the same term keys and per-document counts as X,
\* and Y == X; to_dict on X leaves X unchanged.
C14_SnapshotRoundTrip ==
    [][/\ (call'.op = "from_dict" /\ call'.args[1] = to_dict("A").result) =>
            /\ SameContent("B", "A")'
            /\ __eq__("B", "A")'
            /\ _documents'["A"] = _documents["A"]
            /\ _terms'["A"] = _terms["A"]
            /\ \A t \in Keys(_terms["A"]) : Table("A", t)' = Table("A", t)
       /\ call'.op = "to_dict" =>
            /\ IndexStateUnchanged
            /\ call'.result.documents = _documents["A"]
            /\ \A n \in DOMAIN _terms["A"] :
                  call'.result.terms[n] =
                      <<_terms["A"][n][1], Table("A", _terms["A"][n][1])>>]_vars

C14_Witness ==
    /\ call.op = "from_dict"
    /\ call.self = "B"
    /\ \E d \in Keys(_documents["B"]) : Get(_documents["B"], d) = 0
    /\ \E t \in Keys(_terms["B"]) : Table("B", t) = <<>>
    /\ SameContent("B", "A")

\* C15: merge([X]) equals X: the same document keys with the same counts
\* and the same term keys with the same per-document counts.
C15_MergeOfOneIsEqual ==
    [][(MergeReturns /\ Len(call'.args[1]) = 1) =>
        LET X == call'.args[1][1]
        IN  /\ DictEq(_documents'["R"], _documents[X])
            /\ Keys(_terms'["R"]) = Keys(_terms[X])
            /\ \A t \in Keys(_terms[X]) :
                  DictEq(heap'[Get(_terms'["R"], t)].tab, Table(X, t))
      ]_vars

\* two results of merge have equal document key sets, equal term key sets
\* and equal counts for every document and every (term, document) pair
EqualCounts(r1, r2) ==
    /\ DictEq(r1.documents, r2.documents)
    /\ Keys(r1.terms) = Keys(r2.terms)
    /\ \A t \in Keys(r1.terms) :
          DictEq(r1.heap[Get(r1.terms, t)].tab, r2.heap[Get(r2.terms, t)].tab)

\* C16: merge is commutative: for any two indexes i and j, merge([i, j])
\* and merge([j, i]) both return or both raise, and when they return they
\* have equal document key sets, equal term key sets and equal counts for
\* every document and every (term, document) pair.
C16_MergeIsCommutative ==
    \A i, j \in Idx :
        LET r1 == MergeResult(<<i, j>>)
            r2 == MergeResult(<<j, i>>)
        IN  /\ r1.raised = r2.raised
            /\ r1.raised = "None" => EqualCounts(r1, r2)

C16_Witness ==
    /\ call.op = "merge"
    /\ call.raised = "None"
    /\ call.args[1] = <<"A", "B">>
    /\ Keys(_terms["A"]) # {}
    /\ Keys(_terms["B"]) # {}
    /\ Keys(_terms["A"]) # Keys(_terms["B"])
    /\ KeyList(MergeResult(<<"B", "A">>).terms) # KeyList(_terms["R"])
    /\ EqualCounts(MergeResult(<<"B", "A">>),
                   [documents |-> _documents["R"], terms |-> _terms["R"],
                    heap |-> heap])

\* the mode handed to the last call of generate_document_vector or
\* generate_feature_matrix
ModeOf(c) ==
    IF c.op = "generate_document_vector" THEN c.args[2] ELSE c.args[1]

\* C17: generate_document_vector and generate_feature_matrix raise
\* ValueError whenever mode is neither 'tfidf', 'ntfidf', 'tf', 'ntf' nor
\* a callable, and they do so without changing the index.
C17_InvalidModeRaisesValueError ==
    [][(/\ call'.op \in {"generate_document_vector",
                         "generate_feature_matrix"}
        /\ ModeOf(call') = "invalid") =>
            /\ call'.raised = "ValueError"
            /\ IndexStateUnchanged]_vars

\* the weight of (term, document) under mode 'tf' or a custom function
Weight(mode, term, document) ==
    IF mode = "tf" THEN get_term_frequency("A", term, document, FALSE)
    ELSE custom_weighting("A", term, document)

IsZero(v) == v.tf[1] = 0

\* C19: for every known term and known document, get_tfidf(term,
\* document), normalized or not, returns 0 whenever
\* get_term_frequency(term, document) is 0.
C19_TfIdfIsZeroForZeroFrequency ==
    (/\ call.op = "get_tfidf"
     /\ In(call.args[1], _terms["A"])
     /\ In(call.args[2], _documents["A"])
     /\ get_term_frequency("A", call.args[1], call.args[2], FALSE).result[1]
            = 0) =>
        /\ call.raised = "None"
        /\ IsZero(call.result)

C19_Witness ==
    /\ call.op = "get_tfidf"
    /\ call.args[3]
    /\ In(call.args[1], _terms["A"])
    /\ GetOr0(_documents["A"], call.args[2]) = 0
    /\ In(call.args[2], _documents["A"])
    /\ Len(_documents["A"]) = 2
    /\ document_frequency("A", call.args[1]).result[1] = 1
    /\ call.raised = "None"
    /\ IsZero(call.result)

\* the read-only queries
QueryOps == TermQueries \cup
            {"get_document_length", "terms", "documents", "get_tfidf",
             "get_total_tfidf", "generate_document_vector",
             "generate_feature_matrix", "to_dict"}

\* C20: every read-only query, whether it returns or raises, leaves
\* documents, the term map with its tables and the freeze flag unchanged,
\* and a query repeated with no mutation in between gives the same result.
C20_QueriesChangeNothing ==
    [][call'.op \in QueryOps =>
        /\ IndexStateUnchanged
        /\ (call.op = call'.op /\ call.args = call'.args) => call' = call
      ]_vars

C20_Witness ==
    /\ call.op = "generate_document_vector"
    /\ call.raised = "IndexError"
    /\ call.result = DOCUMENT_DOES_NOT_EXIST
    /\ _terms["A"] # <<>>
    /\ _documents["A"] # <<>>

\* no item occurs twice in the sequence s
NoDuplicates(s) == \A m, n \in DOMAIN s : s[m] = s[n] => m = n

\* C21: terms() and documents() return independent sequences of the
\* current, duplicate-free key sets: a sequence returned earlier is not
\* changed by a later add_term_occurrence, prune or clear, and modifying a
\* returned sequence does not change the index.
C21_ReturnedListsAreIndependent ==
    [][/\ call'.op \in {"terms", "documents"} =>
            /\ Items(held)' = call'.result
            /\ call'.result = KeyList(Map("A", call'.op))
            /\ NoDuplicates(call'.result)
       /\ call'.op \in {"add_term_occurrence", "prune", "clear"} =>
            Items(held)' = Items(held)
       /\ call'.op = "list.__delitem__" => IndexStateUnchanged]_vars

C21_Witness ==
    /\ call.op \in {"prune", "clear"}
    /\ held.attr = "terms"
    /\ Items(held) = <<"t1", "t2">>
    /\ _terms["A"] = <<>>
    /\ _documents["A"] # <<>>

\* the arguments of the last tokenizer call, with the defaults filled in
NgramSize(c) == IF c.args.ngrams = None THEN 1 ELSE c.args.ngrams[1]
StemmerOf(c) == IF c.args.stemmer = None THEN NullStemmer ELSE c.args.stemmer[1]

\* the raw token, after stemming, has length >= min_length, is not a
\* stopword and (when ignore_numeric) is not numeric
Survives(c, token) ==
    LET t == stem(StemmerOf(c), token)
    IN  /\ Len(t) >= c.args.min_length
        /\ t \notin c.args.stopwords
        /\ ~(c.args.ignore_numeric /\ isnumeric(t))

\* the windows of n consecutive items of the sequence s, in order
Windows(s, n) == [i \in 1..(Len(s) - n + 1) |-> SubSeq(s, i, i + n - 1)]

\* the tokens of the window w, stemmed
Stemmed(c, w) == [k \in DOMAIN w |-> stem(StemmerOf(c), w[k])]

\* C22: word_tokenize emits, in order, exactly those n-gram windows of the
\* raw token sequence in which every token survives stemming and the
\* min_length, stopword and numeric filters; one failing token discards
\* the whole window; every emitted tuple has exactly ngram_size tokens,
\* the stemmed tokens of its window in order.
C22_EmitsWindowsWhoseTokensAllSurvive ==
    (call.op = "word_tokenize" /\ call.raised = "None") =>
        LET AllSurvive(w) == \A k \in DOMAIN w : Survives(call, w[k])
            kept == SelectSeq(Windows(call.args.matched_tokens,
                                      NgramSize(call)), AllSurvive)
        IN  /\ call.result = [k \in DOMAIN kept |-> Stemmed(call, kept[k])]
            /\ \A k \in DOMAIN call.result :
                  Len(call.result[k]) = NgramSize(call)

C22_Witness ==
    /\ call.op = "word_tokenize"
    /\ call.raised = "None"
    /\ NgramSize(call) = 2
    /\ Len(call.args.matched_tokens) = 3
    /\ StemmerOf(call).stem = "plural"
    /\ Len(call.result) = 1
    /\ call.result[1] # SubSeq(call.args.matched_tokens, 1, 2)
    /\ call.result[1] # SubSeq(call.args.matched_tokens, 2, 3)

\* C23: for a token sequence of length L and window size n >= 1,
\* get_ngrams yields max(0, L - n + 1) windows, in order, the i-th (from 1)
\* being tokens i .. i+n-1; a sequence shorter than n yields none.
C23_NgramsAreSlidingWindows ==
    call.op = "get_ngrams" =>
        LET token_list == call.args.matched_tokens
            n == IF call.args.ngrams = None THEN 2 ELSE call.args.ngrams[1]
            L == Len(token_list)
        IN  /\ call.raised = "None"
            /\ Len(call.result) = IF L - n + 1 > 0 THEN L - n + 1 ELSE 0
            /\ \A i \in DOMAIN call.result :
                  call.result[i] = SubSeq(token_list, i, i + n - 1)
            /\ L < n => call.result = <<>>

C23_Witness ==
    /\ call.op = "get_ngrams"
    /\ call.args.ngrams = Some(2)
    /\ Len(call.args.matched_tokens) = 3
    /\ Len(call.result) = 2
    /\ call.result[1] # call.result[2]

\* the raw tokens of the last call that survive, stemmed
SurvivingTokens(c) ==
    LET Kept(token) == Survives(c, token)
    IN  Stemmed(c, SelectSeq(c.args.matched_tokens, Kept))

\* s can be had from t by leaving items out
RECURSIVE IsSubsequence(_, _)
IsSubsequence(s, t) ==
    IF s = <<>> THEN TRUE
    ELSE IF t = <<>> THEN FALSE
    ELSE IF Head(s) = Head(t) THEN IsSubsequence(Tail(s), Tail(t))
    ELSE IsSubsequence(s, Tail(t))

Unusable(stemmer) == ~stemmer.hasattr_stem \/ ~stemmer.callable_stem

\* C25: validate_stemmer raises InvalidStemmerException exactly when the
\* object has no stem attribute or its stem attribute is not callable, and
\* accepts every other object; word_tokenize given such a stemmer raises
\* that exception before emitting any token.
C25_InvalidStemmerIsRejected ==
    /\ call.op = "validate_stemmer" =>
          /\ call.raised = "InvalidStemmerException"
                <=> Unusable(call.args.stemmer[1])
          /\ ~Unusable(call.args.stemmer[1]) =>
                call.raised = "None" /\ call.result = None
    /\ (call.op = "word_tokenize" /\ Unusable(StemmerOf(call))) =>
          /\ call.raised = "InvalidStemmerException"
          /\ call.result \in
                {"Stemmer is missing a \"stem\" function",
                 "Stemmer has a \"stem\" attribute but it is not a function"}
    /\ (call.op = "word_tokenize" /\ ~Unusable(StemmerOf(call))) =>
          call.raised = "None"

C25_Witness ==
    /\ call.op = "word_tokenize"
    /\ call.raised = "InvalidStemmerException"
    /\ StemmerOf(call).hasattr_stem
    /\ ~StemmerOf(call).callable_stem
    /\ Len(call.args.matched_tokens) = 2

\* C26: every count stored in a per-term table is at least 1; a term whose
\* table is empty is one of the constructor's initial terms with no
\* occurrence recorded since (its table is still the plain dict made by
\* the constructor); an index built with initial terms V starts with term
\* set V, no documents and an empty table for every term.
C26_EmptyTablesAreSeeded ==
    /\ \A t \in Keys(_terms["A"]) :
          /\ \A n \in DOMAIN Table("A", t) : Table("A", t)[n][2] >= 1
          /\ Table("A", t) = <<>> =>
                heap[Get(_terms["A"], t)].kind = "dict"
    /\ call.op = "__init__" =>
          /\ KeyList(_terms["A"]) = call.args[1]
          /\ _documents["A"] = <<>>
          /\ \A t \in Keys(_terms["A"]) : Table("A", t) = <<>>

C26_Witness ==
    /\ call.op = "add_term_occurrence"
    /\ \E t \in Keys(_terms["A"]) :
          Table("A", t) = <<>> /\ heap[Get(_terms["A"], t)].kind = "dict"
    /\ \E t \in Keys(_terms["A"]) : get_total_term_frequency("A", t).result[1] = 2

\* C27: across any add_term_occurrence, freeze, unfreeze or prune step no
\* document key leaves documents and no documents[d] decreases, and no
\* count terms[t][d] decreases while t stays in the term map; a table
\* entry disappears only with its whole term, removed by prune or clear.
C27_CountsOnlyAccumulate ==
    [][/\ call'.op \in {"add_term_occurrence", "freeze", "unfreeze", "prune"} =>
            /\ \A d \in Keys(_documents["A"]) :
                  /\ In(d, _documents'["A"])
                  /\ Get(_documents'["A"], d) >= Get(_documents["A"], d)
            /\ \A t \in Keys(_terms["A"]) \cap Keys(_terms'["A"]) :
                  \A d \in Keys(Table("A", t)) :
                      /\ In(d, Table("A", t)')
                      /\ Get(Table("A", t)', d) >= Get(Table("A", t), d)
       /\ call'.op \in {"add_term_occurrence", "freeze", "unfreeze"} =>
            Keys(_terms["A"]) \subseteq Keys(_terms'["A"])
      ]_vars

C27_Witness ==
    /\ call.op = "prune"
    /\ \E d \in Keys(_documents["A"]) : Get(_documents["A"], d) = 3
    /\ \E t \in Keys(_terms["A"]) : get_total_term_frequency("A", t).result[1] = 2
    /\ Len(_terms["A"]) = 1

\* C28: for every document d, documents[d] is at least the sum over the
\* terms t still in the term map of terms[t][d].
C28_LengthIsAtLeastSum ==
    \A d \in Docs :
        GetOr0(_documents["A"], d) >= SumTables(_terms["A"], heap, d)

C28_Witness ==
    /\ call.op = "prune"
    /\ \E d \in Keys(_documents["A"]) :
          /\ SumTables(_terms["A"], heap, d) >= 1
          /\ Get(_documents["A"], d) > SumTables(_terms["A"], heap, d)

\* the number tf * log10(n / df) is not negative
NonNegative(v) == v.tf[1] >= 0 /\ v.tf[2] > 0 /\ v.n >= v.df

\* C29: every document key of a per-term table is a key of documents;
\* hence get_document_frequency(t) is at most the number of documents, the
\* ratio (2 + number of documents) / (1 + document frequency) is greater
\* than 1, and get_tfidf never returns a negative value.
C29_TfIdfIsNeverNegative ==
    \A t \in Keys(_terms["A"]) :
        LET df == document_frequency("A", t).result[1]
            n_documents == Len(documents("A").result)
        IN  /\ Keys(Table("A", t)) \subseteq Keys(_documents["A"])
            /\ df <= n_documents
            /\ 2 + n_documents > 1 + df
            /\ \A d \in Keys(_documents["A"]), normalized \in BOOLEAN :
                  LET r == get_tfidf("A", t, d, normalized)
                  IN  r.raised = "None" /\ NonNegative(r.result)

C29_Witness ==
    /\ call.op = "get_tfidf"
    /\ call.raised = "None"
    /\ call.result.tf[1] > 0
    /\ Len(_documents["A"]) = 2
    /\ call.result.df = 1 + Len(_documents["A"])
    /\ call.result.n = 2 + Len(_documents["A"])

\* C30: get_total_tfidf(term) returns the sum of get_tfidf(term, d) over
\* all known documents d and raises IndexError (unknown term) when term is
\* not in the term map, in every index state.
C30_TotalTfIdfRejectsUnknownTerm ==
    call.op = "get_total_tfidf" =>
        IF In(call.args[1], _terms["A"])
        THEN /\ call.raised = "None"
             /\ call.result =
                   [n \in DOMAIN documents("A").result |->
                       get_tfidf("A", call.args[1],
                                 documents("A").result[n],
                                 call.args[2]).result]
        ELSE /\ call.raised = "IndexError"
             /\ call.result = TERM_DOES_NOT_EXIST

\* C33: clear() empties the term map and the documents map from any state
\* and changes nothing else, the freeze flag included; so in a frozen
\* index whose term map is empty (as after freeze() and clear()) every
\* add_term_occurrence leaves the term map empty and only creates the
\* document, with count 0, as long as unfreeze() is not called.
C33_ClearKeepsFreezeFlag ==
    [][/\ call'.op = "clear" =>
            /\ _terms'["A"] = <<>>
            /\ _documents'["A"] = <<>>
            /\ _freeze' = _freeze
            /\ \A j \in Idx \ {"A"} :
                  _terms'[j] = _terms[j] /\ _documents'[j] = _documents[j]
       /\ (/\ call.op = "clear"
           /\ _freeze["A"]
           /\ call'.op = "add_term_occurrence") =>
            /\ _terms'["A"] = <<>>
            /\ _documents'["A"] = <<<<call'.args[2], 0>>>>
            /\ _freeze'["A"]
       /\ (/\ call'.op = "add_term_occurrence"
           /\ _freeze["A"]
           /\ _terms["A"] = <<>>) =>
            /\ _terms'["A"] = <<>>
            /\ Keys(_documents'["A"]) =
                  Keys(_documents["A"]) \cup {call'.args[2]}
            /\ SumValues(_documents'["A"]) = SumValues(_documents["A"])
      ]_vars

C33_Witness ==
    /\ call.op = "add_term_occurrence"
    /\ _freeze["A"]
    /\ _terms["A"] = <<>>
    /\ Len(_documents["A"]) = 2
    /\ SumValues(_documents["A"]) = 0
    /\ nops = 5

\* C32: after Y.from_dict(X.to_dict()) the two indexes share no mutable
\* state: add_term_occurrence, prune and clear on one leave the documents
\* and per-term tables of the other unchanged; from_dict replaces both
\* maps of Y completely, leaves Y's freeze flag as it was and leaves X
\* unchanged.
C32_FromDictCopies ==
    [][/\ call'.op \in {"add_term_occurrence", "prune", "clear"} =>
            /\ call'.self = "B" => IndexUnchanged("A")
            /\ call'.self = "A" => IndexUnchanged("B")
       /\ call'.op = "from_dict" =>
            /\ _documents'["B"] = call'.args[1].documents
            /\ KeyList(_terms'["B"]) = KeyList(call'.args[1].terms)
            /\ \A t \in Keys(_terms'["B"]) :
                  Table("B", t)' = Get(call'.args[1].terms, t)
            /\ _freeze' = _freeze
            /\ IndexUnchanged("A")
            /\ \A t \in Keys(_terms'["B"]) :
                  Get(_terms'["B"], t) # Get(_terms'["A"], t)
      ]_vars

C32_Witness ==
    /\ call.op = "add_term_occurrence"
    /\ call.self = "B"
    /\ KeyList(_terms["B"]) = KeyList(_terms["A"])
    /\ \A t \in Keys(_terms["A"]) : Table("A", t) = <<>>
    /\ \E t \in Keys(_terms["B"]) : Table("B", t) = <<>>
    /\ \E t \in Keys(_terms["B"]) : SumValues(Table("B", t)) = 1

\* C31: merge does not modify its arguments: when merge(L) returns, the
\* documents map, the term map with all per-document counts and the
\* freeze flag of every index in L are as before the call.  (R, when it
\* is in L, names the result after the call; the arguments seen here are
\* A and B.)
C31_MergeLeavesArguments ==
    [][MergeReturns =>
        \A k \in DOMAIN call'.args[1] :
            LET j == call'.args[1][k]
            IN  j # "R" => /\ IndexUnchanged(j)
                           /\ _freeze'[j] = _freeze[j]]_vars

C31_Witness ==
    /\ call.op = "merge"
    /\ call.raised = "None"
    /\ call.args[1] = <<"A", "B">>
    /\ \E t \in Keys(_terms["A"]) \cap Keys(_terms["B"]) :
          /\ SumValues(Table("A", t)) = 1
          /\ SumValues(Table("B", t)) = 1
          /\ SumValues(Table("R", t)) = 2
=============================================================================
